---- MODULE Spec2Model ----
(***************************************************************************)
(* A model of calculate_streaks_and_activity (src/today.py), the routine   *)
(* that merges the per-year contribution calendars of a user and derives   *)
(* the longest streak, the current streak, the best day and the average    *)
(* per day.                                                                *)
(*                                                                         *)
(* Dates.  The code handles dates as ISO strings "YYYY-MM-DD" and compares *)
(* them as strings, which for well-formed dates is the calendar order.     *)
(* Here a date is the number of the day on a scaled calendar in which a    *)
(* year has DaysPerYear days: year y is the dates FirstDay(y)..LastDay(y). *)
(* Integer order is the string order of the code, and d+1 is the calendar  *)
(* day after d.  None is the Python None.                                  *)
(*                                                                         *)
(* The clock.  datetime.datetime.now() is read once per loop iteration     *)
(* (line 329) and twice more for today and yesterday (lines 363, 364).     *)
(* The variable now is the clock's date; Tick moves it over midnight.      *)
(***************************************************************************)
EXTENDS Integers, Sequences, FiniteSets

\* ------------------------------------------------------------------ bounds
\* The requested years are drawn from 1..MaxYear.
MaxYear == 3
\* The midnights the clock may cross during a behaviour.
MaxTicks == 1

\* The scaled length of a calendar year (Jan 1 .. Dec 31 of lines 326-327).
DaysPerYear == 2

\* The contribution counts a day may carry: none, some, more.
Counts == {0, 1, 2}

\* Python's None (lines 323, 356, 357, 359, 361).
None == 0

AllYears == 1..MaxYear
FirstDay(y) == (y - 1) * DaysPerYear + 1
LastDay(y) == y * DaysPerYear
YearOf(d) == ((d - 1) \div DaysPerYear) + 1
LastDate == LastDay(MaxYear)

\* The clock starts on the last day of the year before the last or in the
\* last year, so that a requested year may be a past year, the current year
\* (cut at the clock's date or whole) or a year still to come.
ClockDates == LastDay(MaxYear - 1)..LastDate

VARIABLES
  years,               \* the argument: the requested years, in the given order
  source,              \* the Calendar Data Source: year -> its response
  now,                 \* the clock (a date)
  ticks,               \* midnights crossed so far
  crossed,             \* a midnight was crossed since the clock was last read
  pc,                  \* position in the routine
  pending,             \* the years of sorted(years) still to fetch
  fetched,             \* the responses received by this invocation, in order
  error,               \* the exception raised, if any
  all_days,
  total_contributions, total_commits, total_prs, total_pr_reviews, total_issues,
  start_date,
  today, yesterday,
  temp_streak, temp_streak_start,
  longest_streak, longest_streak_start, longest_streak_end,
  best_day_count, best_day_date,
  current_streak,
  summary,             \* the returned dict, NoSummary until the return
  run,                 \* 1 in the first invocation, 2 in a repeated one
  first                \* what the first invocation received and returned

\* simple_request, lines 48-75.
VARIABLES
  rq_pc,               \* position in simple_request
  attempt,             \* the loop variable of line 51
  request,             \* the status code of the last response, None before one
  posted,              \* the status codes of the responses to the POSTs, in order
  rq_result            \* what the caller got: nothing yet, the response, or an exception

requestVars == << rq_pc, attempt, request, posted, rq_result >>
\* get_lines_of_code, lines 188-271.
VARIABLES
  repos,               \* the repositories of the account, as line 212 reads them
  loc_pc,              \* position in get_lines_of_code
  repo_idx,            \* the position in repos of the loop of line 222
  stats_attempt,       \* the loop variable of line 239
  repo_additions, repo_deletions, status,
  total_additions, total_deletions, processed, skipped_forks,
  stats_requests,      \* the status codes answered to the current repository's requests
  repo_log,            \* per repository gone through: its requests and what it added
  loc_result           \* the returned dict, None before the return

locVars == << repos, loc_pc, repo_idx, stats_attempt, repo_additions,
              repo_deletions, status, total_additions, total_deletions,
              processed, skipped_forks, stats_requests, repo_log, loc_result >>
helperVars == << requestVars, locVars >>

vars == << years, source, now, ticks, crossed, pc, pending, fetched, error, all_days,
           total_contributions, total_commits, total_prs, total_pr_reviews,
           total_issues, start_date, today, yesterday, temp_streak,
           temp_streak_start, longest_streak, longest_streak_start,
           longest_streak_end, best_day_count, best_day_date, current_streak,
           summary, run, first, helperVars >>

NoSummary == [returned |-> FALSE]

\* ------------------------------------------------------- sequence helpers
RECURSIVE SumCounts(_)
SumCounts(s) == IF s = << >> THEN 0 ELSE Head(s).count + SumCounts(Tail(s))

RECURSIVE Positives(_)
Positives(s) ==
  IF s = << >> THEN 0
  ELSE (IF Head(s).count > 0 THEN 1 ELSE 0) + Positives(Tail(s))

RECURSIVE AscSeq(_)
AscSeq(S) ==
  IF S = {} THEN << >>
  ELSE LET m == CHOOSE x \in S : \A z \in S : x <= z
       IN << m >> \o AscSeq(S \ {m})

RECURSIVE DescSeq(_)
DescSeq(S) ==
  IF S = {} THEN << >>
  ELSE LET m == CHOOSE x \in S : \A z \in S : x >= z
       IN << m >> \o DescSeq(S \ {m})

\* sorted(years), line 325: insertion of each element into its place.
RECURSIVE InsertInt(_, _)
InsertInt(x, s) ==
  IF s = << >> THEN << x >>
  ELSE IF x < Head(s) THEN << x >> \o s
  ELSE << Head(s) >> \o InsertInt(x, Tail(s))

\* sorted(years, reverse=True): the years taken from the newest to the oldest.
sortedReversed(s) == DescSeq({s[i] : i \in 1..Len(s)})

\* The loop over years as given, without sorted().
sortedOmitted(s) == s

RECURSIVE sorted(_)
sorted(s) == IF s = << >> THEN << >> ELSE InsertInt(s[Len(s)], sorted(SubSeq(s, 1, Len(s) - 1)))

\* An unstable sort: a record goes before the records of its own date.
RECURSIVE InsertDayBeforeEqual(_, _)
InsertDayBeforeEqual(d, s) ==
  IF s = << >> THEN << d >>
  ELSE IF d.date <= Head(s).date THEN << d >> \o s
  ELSE << Head(s) >> \o InsertDayBeforeEqual(d, Tail(s))

\* all_days.sort(key=lambda x: x["date"]), line 351: list.sort is stable, a
\* record goes after every record whose date is less than or equal to its own.
RECURSIVE InsertDay(_, _)
InsertDay(d, s) ==
  IF s = << >> THEN << d >>
  ELSE IF d.date < Head(s).date THEN << d >> \o s
  ELSE << Head(s) >> \o InsertDay(d, Tail(s))

RECURSIVE SortByDate(_)
SortByDate(s) ==
  IF s = << >> THEN << >>
  ELSE InsertDay(s[Len(s)], SortByDate(SubSeq(s, 1, Len(s) - 1)))

\* ------------------------------------------------- the Calendar Data Source
\* The calendar of one year as the source holds it: one record per day of the
\* year, in date order, with the year's rollups.
YearCalendar(y, c) ==
  LET days == [k \in 1..DaysPerYear |->
                 [date |-> FirstDay(y) + k - 1, count |-> c[FirstDay(y) + k - 1]]]
  IN [days |-> days,
      commits |-> SumCounts(days),
      prs |-> Positives(days),
      reviews |-> Len(days) - Positives(days),
      issues |-> y]

EmptyCalendar == [days |-> << >>, commits |-> 0, prs |-> 0, reviews |-> 0, issues |-> 0]

DatesOf(S) == UNION {FirstDay(y)..LastDay(y) : y \in S}

\* get_contribution_calendar(start_date, end_date), lines 276-310: the
\* contributionsCollection(from, to) of the user; the server answers with the
\* days of the range and the totals of the range.
get_contribution_calendar(year_start, year_end) ==
  LET cal == source[YearOf(year_start)]
      InRange(day) == year_start <= day.date /\ day.date <= year_end
      days == SelectSeq(cal.days, InRange)
  IN [totalContributions |-> SumCounts(days),
      totalCommitContributions |-> cal.commits,
      totalPullRequestContributions |-> cal.prs,
      totalPullRequestReviewContributions |-> cal.reviews,
      totalIssueContributions |-> cal.issues,
      days |-> days]

\* ------------------------------------------------------- the streak pass
\* BestDay with >= for >: the last day of equal count takes the record.
BestDayLast(day, st) ==
  IF day.count >= st.best_day_count
  THEN [st EXCEPT !.best_day_count = day.count, !.best_day_date = day.date]
  ELSE st

\* Lines 374-376: a day beats the best day only with a strictly larger count.
BestDay(day, st) ==
  IF day.count > st.best_day_count
  THEN [st EXCEPT !.best_day_count = day.count, !.best_day_date = day.date]
  ELSE st

\* The body of the loop taking the day that breaks a streak for the streak's
\* last day.
StreakStepEndsOnBreakDay(days, i, st) ==
  LET day == days[i] IN
  IF day.count > 0
  THEN LET s1 == IF st.temp_streak = 0
                 THEN [st EXCEPT !.temp_streak_start = day.date]
                 ELSE st
           s2 == [s1 EXCEPT !.temp_streak = @ + 1]
       IN BestDay(day, s2)
  ELSE LET s1 == IF st.temp_streak > st.longest_streak
                 THEN [st EXCEPT !.longest_streak = st.temp_streak,
                                 !.longest_streak_start = st.temp_streak_start,
                                 !.longest_streak_end = day.date]
                 ELSE st
       IN [s1 EXCEPT !.temp_streak = 0]

\* The body of the loop without the update of the longest streak when a
\* streak is broken: only the streak open at the end can become the longest.
StreakStepDropsClosedStreak(days, i, st) ==
  LET day == days[i] IN
  IF day.count > 0
  THEN LET s1 == IF st.temp_streak = 0
                 THEN [st EXCEPT !.temp_streak_start = day.date]
                 ELSE st
           s2 == [s1 EXCEPT !.temp_streak = @ + 1]
       IN BestDay(day, s2)
  ELSE [st EXCEPT !.temp_streak = 0]

\* The body of the loop with the test day["count"] >= 0: a day without
\* contributions extends the streak.
StreakStepCountsZeroDays(days, i, st) ==
  LET day == days[i] IN
  IF day.count >= 0
  THEN LET s1 == IF st.temp_streak = 0
                 THEN [st EXCEPT !.temp_streak_start = day.date]
                 ELSE st
           s2 == [s1 EXCEPT !.temp_streak = @ + 1]
       IN BestDay(day, s2)
  ELSE [st EXCEPT !.temp_streak = 0]

\* Lines 369-384: the body of the loop for the day at position i (1-based;
\* the code's i is i - 1).
StreakStep(days, i, st) ==
  LET day == days[i] IN
  IF day.count > 0
  THEN LET s1 == IF st.temp_streak = 0
                 THEN [st EXCEPT !.temp_streak_start = day.date]
                 ELSE st
           s2 == [s1 EXCEPT !.temp_streak = @ + 1]
       IN BestDay(day, s2)
  ELSE LET s1 == IF st.temp_streak > st.longest_streak
                 THEN [st EXCEPT !.longest_streak = st.temp_streak,
                                 !.longest_streak_start = st.temp_streak_start,
                                 !.longest_streak_end =
                                    IF i > 1 THEN days[i - 1].date
                                    ELSE st.temp_streak_start]
                 ELSE st
       IN [s1 EXCEPT !.temp_streak = 0]

\* Lines 368-384: for i, day in enumerate(all_days).
RECURSIVE StreakLoop(_, _, _)
StreakLoop(days, i, st) ==
  IF i > Len(days) THEN st ELSE StreakLoop(days, i + 1, StreakStep(days, i, st))

\* Lines 354-361: the streak variables before the pass.
StreakInit ==
  [temp_streak |-> 0, temp_streak_start |-> None,
   longest_streak |-> 0, longest_streak_start |-> None, longest_streak_end |-> None,
   best_day_count |-> 0, best_day_date |-> None]

\* FinalCheck with the comparison reversed: the open streak replaces the
\* longest one only when it is shorter.
FinalCheckReversed(days, st) ==
  IF st.temp_streak < st.longest_streak
  THEN [st EXCEPT !.longest_streak = st.temp_streak,
                  !.longest_streak_start = st.temp_streak_start,
                  !.longest_streak_end =
                     IF days # << >> THEN days[Len(days)].date
                     ELSE st.temp_streak_start]
  ELSE st

\* FinalCheck left out: the streak open at the end of the pass is dropped.
FinalCheckSkipped(days, st) == st

\* Lines 386-390: check final streak.
FinalCheck(days, st) ==
  IF st.temp_streak > st.longest_streak
  THEN [st EXCEPT !.longest_streak = st.temp_streak,
                  !.longest_streak_start = st.temp_streak_start,
                  !.longest_streak_end =
                     IF days # << >> THEN days[Len(days)].date
                     ELSE st.temp_streak_start]
  ELSE st

\* ------------------------------------------------------ the current streak
\* IsRecent taking any day up to today for a recent one.
IsRecentLoose(day, t, y) == day.date <= t

\* Line 394: day["date"] == today or day["date"] == yesterday.
IsRecent(day, t, y) == day.date = t \/ day.date = y

\* all_days.index(day), line 397: the first position holding an equal record.
IndexOf(days, day) ==
  CHOOSE i \in 1..Len(days) : days[i] = day /\ \A j \in 1..(i - 1) : days[j] # day

\* The backward count with the test idx > 0: the first record of the list is
\* never counted.
RECURSIVE CountBackStopsEarly(_, _, _)
CountBackStopsEarly(days, idx, cs) ==
  IF idx >= 2 /\ days[idx].count > 0 THEN CountBackStopsEarly(days, idx - 1, cs + 1) ELSE cs

\* Lines 398-400: while idx >= 0 and all_days[idx]["count"] > 0 (idx 1-based).
RECURSIVE CountBack(_, _, _)
CountBack(days, idx, cs) ==
  IF idx >= 1 /\ days[idx].count > 0 THEN CountBack(days, idx - 1, cs + 1) ELSE cs

\* Lines 393-403: for day in reversed(all_days), the day at position k.
RECURSIVE ScanBack(_, _, _, _)
ScanBack(days, k, t, y) ==
  IF k < 1 THEN 0
  ELSE LET day == days[k] IN
       IF IsRecent(day, t, y)
       THEN IF day.count > 0
            THEN CountBack(days, IndexOf(days, day) - 1, 1)
            ELSE ScanBack(days, k - 1, t, y)
       ELSE IF day.date < y THEN 0
       ELSE ScanBack(days, k - 1, t, y)

\* CurrentStreakOf giving up at a most recent day that is recent and empty.
CurrentStreakOfStrict(days, t, y) ==
  IF days # << >> /\ IsRecent(days[Len(days)], t, y) /\ days[Len(days)].count = 0
  THEN 0
  ELSE ScanBack(days, Len(days), t, y)

CurrentStreakOf(days, t, y) == ScanBack(days, Len(days), t, y)

\* ------------------------------------------------------------ the average
\* TotalDays counting every merged day, those after today too.
TotalDaysAll(days, t) == Len(days)

\* Line 406: len([d for d in all_days if d["date"] <= today]).
RECURSIVE TotalDays(_, _)
TotalDays(days, t) ==
  IF days = << >> THEN 0
  ELSE (IF Head(days).date <= t THEN 1 ELSE 0) + TotalDays(Tail(days), t)

\* The quotient without the guard on total_days: a division by zero when no
\* day counts.
AvgPerDayUnguarded(total, total_days) == [num |-> total, den |-> total_days]

\* The greatest common divisor of a >= 0 and b > 0.
RECURSIVE Gcd(_, _)
Gcd(a, b) == IF b = 0 THEN a ELSE Gcd(b, a % b)

\* Line 407: total_contributions / total_days if total_days > 0 else 0.  The
\* quotient is a number: it is kept as the fraction num/den in lowest terms,
\* so that two averages are equal records exactly when the code's quotients
\* are equal numbers (0 / 2 = 0 / 3 = 0, and 2 / 4 = 1 / 2).
AvgPerDay(total, total_days) ==
  IF total_days > 0
  THEN LET g == Gcd(total, total_days)
       IN [num |-> total \div g, den |-> total_days \div g]
  ELSE [num |-> 0, den |-> 1]

\* ------------------------------------------------------------------- Init
YearOrders == {AscSeq(S) : S \in SUBSET AllYears} \cup {DescSeq(S) : S \in SUBSET AllYears}

Range(s) == {s[i] : i \in 1..Len(s)}

Sources(S) ==
  {[y \in AllYears |-> IF y \in S THEN YearCalendar(y, c) ELSE EmptyCalendar] :
     c \in [DatesOf(S) -> Counts]}

\* A source that answers one requested year with a date twice: the second
\* record of the date comes last in the year's response.
SourcesDup(S) ==
  UNION {UNION {{[src EXCEPT ![y].days = Append(@, [date |-> d, count |-> c])] :
                   src \in Sources(S), c \in Counts} :
                d \in FirstDay(y)..LastDay(y)} :
         y \in S}

\* The requests answered with a duplicated date cover one or two years.
DupYearOrders == {ys \in YearOrders : Len(ys) \in {1, 2}}

Locals0 ==
  /\ pc = "start"
  /\ pending = << >>
  /\ fetched = << >>
  /\ error = "none"
  /\ all_days = << >>
  /\ total_contributions = 0
  /\ total_commits = 0
  /\ total_prs = 0
  /\ total_pr_reviews = 0
  /\ total_issues = 0
  /\ start_date = None
  /\ today = None
  /\ yesterday = None
  /\ temp_streak = 0
  /\ temp_streak_start = None
  /\ longest_streak = 0
  /\ longest_streak_start = None
  /\ longest_streak_end = None
  /\ best_day_count = 0
  /\ best_day_date = None
  /\ current_streak = 0
  /\ summary = NoSummary
  /\ run = 1
  /\ first = NoSummary

\* simple_request not called.
RequestIdle ==
  /\ rq_pc = "idle"
  /\ attempt = 0
  /\ request = None
  /\ posted = << >>
  /\ rq_result = "none"

\* get_lines_of_code not called.
LocLocals0 ==
  /\ repo_idx = 0
  /\ stats_attempt = 0
  /\ repo_additions = 0
  /\ repo_deletions = 0
  /\ status = "ok"
  /\ total_additions = 0
  /\ total_deletions = 0
  /\ processed = 0
  /\ skipped_forks = 0
  /\ stats_requests = << >>
  /\ repo_log = << >>
  /\ loc_result = None

LocIdle ==
  /\ repos = << >>
  /\ loc_pc = "idle"
  /\ LocLocals0

HelpersIdle == RequestIdle /\ LocIdle

Init ==
  /\ years \in YearOrders
  /\ source \in Sources(Range(years))
  /\ now \in ClockDates
  /\ ticks = 0
  /\ crossed = FALSE
  /\ Locals0
  /\ HelpersIdle

InitDup ==
  /\ years \in DupYearOrders
  /\ source \in SourcesDup(Range(years))
  /\ now \in ClockDates
  /\ ticks = 0
  /\ crossed = FALSE
  /\ Locals0
  /\ HelpersIdle

\* ---------------------------------------------------------------- actions
streakVars == << temp_streak, temp_streak_start, longest_streak,
                 longest_streak_start, longest_streak_end, best_day_count,
                 best_day_date >>
totalVars == << total_contributions, total_commits, total_prs,
                total_pr_reviews, total_issues >>
inputVars == << years, source >>
clockVars == << now, ticks, crossed >>
runVars == << run, first >>

\* Lines 317-325: the locals, and the iteration over sorted(years).
Begin ==
  /\ pc = "start"
  /\ pc' = "fetch"
  /\ pending' = sorted(years)
  /\ fetched' = << >>
  /\ all_days' = << >>
  /\ total_contributions' = 0
  /\ total_commits' = 0
  /\ total_prs' = 0
  /\ total_pr_reviews' = 0
  /\ total_issues' = 0
  /\ start_date' = None
  /\ UNCHANGED << inputVars, helperVars, clockVars, runVars, error, today, yesterday,
                  streakVars, current_streak, summary >>

\* The range of every year ending at December 31, the current year included.
YearEndUnclamped(year, clock) == LastDay(year)

\* Lines 326-331: the range requested for a year, the end clamped to the
\* clock's date in the current year.
YearEnd(year, clock) == IF year = YearOf(clock) THEN clock ELSE LastDay(year)

\* One iteration of the loop with the five totals assigned (=) where the code
\* accumulates (+=): each total ends as the rollup of the last year fetched.
FetchYearAssigns ==
  /\ pc = "fetch"
  /\ pending # << >>
  /\ LET year == Head(pending)
         year_start == FirstDay(year)
         year_end == YearEnd(year, now)
         data == get_contribution_calendar(year_start, year_end)
     IN /\ total_contributions' = data.totalContributions
        /\ total_commits' = data.totalCommitContributions
        /\ total_prs' = data.totalPullRequestContributions
        /\ total_pr_reviews' = data.totalPullRequestReviewContributions
        /\ total_issues' = data.totalIssueContributions
        /\ all_days' = all_days \o data.days
        /\ start_date' = IF start_date = None THEN FirstDay(year) ELSE start_date
        /\ fetched' = Append(fetched, [year |-> year, start |-> year_start,
                                       end |-> year_end, data |-> data])
  /\ pending' = Tail(pending)
  /\ crossed' = FALSE
  /\ UNCHANGED << inputVars, helperVars, now, ticks, runVars, pc, error, today, yesterday,
                  streakVars, current_streak, summary >>

\* Lines 325-349: one iteration of the loop, the fetch succeeding.
FetchYear ==
  /\ pc = "fetch"
  /\ pending # << >>
  /\ LET year == Head(pending)
         year_start == FirstDay(year)
         year_end == YearEnd(year, now)
         data == get_contribution_calendar(year_start, year_end)
     IN /\ total_contributions' = total_contributions + data.totalContributions
        /\ total_commits' = total_commits + data.totalCommitContributions
        /\ total_prs' = total_prs + data.totalPullRequestContributions
        /\ total_pr_reviews' = total_pr_reviews + data.totalPullRequestReviewContributions
        /\ total_issues' = total_issues + data.totalIssueContributions
        /\ all_days' = all_days \o data.days
        /\ start_date' = IF start_date = None THEN FirstDay(year) ELSE start_date
        /\ fetched' = Append(fetched, [year |-> year, start |-> year_start,
                                       end |-> year_end, data |-> data])
  /\ pending' = Tail(pending)
  /\ crossed' = FALSE
  /\ UNCHANGED << inputVars, helperVars, now, ticks, runVars, pc, error, today, yesterday,
                  streakVars, current_streak, summary >>

\* FetchFails with the exception caught in the loop: the year is skipped and
\* the routine goes on to return a summary of the other years.
FetchFailsCaught ==
  /\ pc = "fetch"
  /\ pending # << >>
  /\ error' = "Exception"
  /\ pending' = Tail(pending)
  /\ UNCHANGED << inputVars, helperVars, clockVars, runVars, pc, fetched, all_days,
                  totalVars, start_date, today, yesterday, streakVars,
                  current_streak, summary >>

\* Line 334 with lines 69-75 and 306-308: the request fails after its retries
\* or the response carries errors; get_contribution_calendar raises and the
\* routine has no handler, so the exception leaves it and its frame (the
\* locals built so far) is dropped; fetched, the record of the exchange with
\* the server, stays.
FetchFails ==
  /\ pc = "fetch"
  /\ pending # << >>
  /\ error' = "Exception"
  /\ pc' = "raised"
  /\ pending' = << >>
  /\ all_days' = << >>
  /\ total_contributions' = 0
  /\ total_commits' = 0
  /\ total_prs' = 0
  /\ total_pr_reviews' = 0
  /\ total_issues' = 0
  /\ start_date' = None
  /\ UNCHANGED << inputVars, helperVars, clockVars, runVars, fetched, today, yesterday,
                  streakVars, current_streak, summary >>

\* Lines 351-361: the sort of the merged days, and the streak variables.
SortDays ==
  /\ pc = "fetch"
  /\ pending = << >>
  /\ all_days' = SortByDate(all_days)
  /\ temp_streak' = StreakInit.temp_streak
  /\ temp_streak_start' = StreakInit.temp_streak_start
  /\ longest_streak' = StreakInit.longest_streak
  /\ longest_streak_start' = StreakInit.longest_streak_start
  /\ longest_streak_end' = StreakInit.longest_streak_end
  /\ best_day_count' = StreakInit.best_day_count
  /\ best_day_date' = StreakInit.best_day_date
  /\ current_streak' = 0
  /\ pc' = "today"
  /\ UNCHANGED << inputVars, helperVars, clockVars, runVars, pending, fetched, error,
                  totalVars, start_date, today, yesterday, summary >>

\* Line 363: today = datetime.datetime.now().strftime("%Y-%m-%d").
ReadToday ==
  /\ pc = "today"
  /\ today' = now
  /\ pc' = "yesterday"
  /\ crossed' = FALSE
  /\ UNCHANGED << inputVars, helperVars, now, ticks, runVars, pending, fetched, error,
                  all_days, totalVars, start_date, yesterday, streakVars,
                  current_streak, summary >>

\* Lines 364-366: yesterday = (datetime.datetime.now() - timedelta(days=1)).
ReadYesterday ==
  /\ pc = "yesterday"
  /\ yesterday' = now - 1
  /\ pc' = "pass"
  /\ crossed' = FALSE
  /\ UNCHANGED << inputVars, helperVars, now, ticks, runVars, pending, fetched, error,
                  all_days, totalVars, start_date, today, streakVars,
                  current_streak, summary >>

StreakState ==
  [temp_streak |-> temp_streak, temp_streak_start |-> temp_streak_start,
   longest_streak |-> longest_streak, longest_streak_start |-> longest_streak_start,
   longest_streak_end |-> longest_streak_end,
   best_day_count |-> best_day_count, best_day_date |-> best_day_date]

SetStreak(st) ==
  /\ temp_streak' = st.temp_streak
  /\ temp_streak_start' = st.temp_streak_start
  /\ longest_streak' = st.longest_streak
  /\ longest_streak_start' = st.longest_streak_start
  /\ longest_streak_end' = st.longest_streak_end
  /\ best_day_count' = st.best_day_count
  /\ best_day_date' = st.best_day_date

\* Lines 368-384: the pass over the sorted days.
StreakPass ==
  /\ pc = "pass"
  /\ SetStreak(StreakLoop(all_days, 1, StreakState))
  /\ pc' = "final"
  /\ UNCHANGED << inputVars, helperVars, clockVars, runVars, pending, fetched, error,
                  all_days, totalVars, start_date, today, yesterday,
                  current_streak, summary >>

\* Lines 386-390: the streak still open when the pass ends.
FinalStreak ==
  /\ pc = "final"
  /\ SetStreak(FinalCheck(all_days, StreakState))
  /\ pc' = "current"
  /\ UNCHANGED << inputVars, helperVars, clockVars, runVars, pending, fetched, error,
                  all_days, totalVars, start_date, today, yesterday,
                  current_streak, summary >>

\* Lines 392-403: the current streak.
CurrentStreak ==
  /\ pc = "current"
  /\ current_streak' = CurrentStreakOf(all_days, today, yesterday)
  /\ pc' = "average"
  /\ UNCHANGED << inputVars, helperVars, clockVars, runVars, pending, fetched, error,
                  all_days, totalVars, start_date, today, yesterday,
                  streakVars, summary >>

\* Lines 405-423: the average and the returned dict.
Return ==
  /\ pc = "average"
  /\ summary' =
       [returned |-> TRUE,
        total_contributions |-> total_contributions,
        current_streak |-> current_streak,
        longest_streak |-> longest_streak,
        longest_streak_start |-> longest_streak_start,
        longest_streak_end |-> longest_streak_end,
        best_day_count |-> best_day_count,
        best_day_date |-> best_day_date,
        avg_per_day |-> AvgPerDay(total_contributions, TotalDays(all_days, today)),
        total_commits |-> total_commits,
        total_prs |-> total_prs,
        total_pr_reviews |-> total_pr_reviews,
        total_issues |-> total_issues,
        start_date |-> start_date]
  /\ pc' = "done"
  /\ UNCHANGED << inputVars, helperVars, clockVars, runVars, pending, fetched, error,
                  all_days, totalVars, start_date, today, yesterday,
                  streakVars, current_streak >>

\* The clock crosses midnight.  It is observed only where the routine reads
\* it (lines 329, 363, 364), so it moves only just before a read; two reads
\* that follow each other (statements apart, or one request apart) have at
\* most one midnight between them.
Tick ==
  /\ ticks < MaxTicks
  /\ ~crossed
  /\ \/ pc = "fetch" /\ pending # << >>
     \/ pc = "today"
     \/ pc = "yesterday"
  /\ now' = now + 1
  /\ ticks' = ticks + 1
  /\ crossed' = TRUE
  /\ UNCHANGED << inputVars, helperVars, runVars, pc, pending, fetched, error, all_days,
                  totalVars, start_date, today, yesterday, streakVars,
                  current_streak, summary >>

Next ==
  \/ Begin
  \/ FetchYear
  \/ FetchFails
  \/ SortDays
  \/ ReadToday
  \/ ReadYesterday
  \/ StreakPass
  \/ FinalStreak
  \/ CurrentStreak
  \/ Return
  \/ Tick

\* The data of the responses of an invocation, in the order received.
FetchedData(f) == [i \in 1..Len(f) |-> f[i].data]

\* Line 1069, called again: a second invocation with the same argument and
\* the same source, the first one's responses and summary kept for comparison.
Reinvoke ==
  /\ pc = "done"
  /\ run = 1
  /\ run' = 2
  /\ first' = [returned |-> TRUE, summary |-> summary, fetched |-> FetchedData(fetched)]
  /\ summary' = NoSummary
  /\ pc' = "start"
  /\ crossed' = FALSE
  /\ UNCHANGED << inputVars, helperVars, now, ticks, pending, fetched, error, all_days,
                  totalVars, start_date, today, yesterday, streakVars,
                  current_streak >>

NextTwice == Next \/ Reinvoke

Spec == Init /\ [][Next]_vars

\* The routine over a source that repeats a date.
SpecDup == InitDup /\ [][Next]_vars

\* The routine invoked twice on the same inputs.
SpecTwice == Init /\ [][NextTwice]_vars

\* ------------------------------------------------------- the main flow
\* Lines 1062-1069 of __main__: the contribution years have been obtained
\* (line 1064), the routine has not been called yet and its locals do not
\* exist.
MainLocals0 ==
  /\ pc = "main"
  /\ pending = << >>
  /\ fetched = << >>
  /\ error = "none"
  /\ all_days = << >>
  /\ total_contributions = 0
  /\ total_commits = 0
  /\ total_prs = 0
  /\ total_pr_reviews = 0
  /\ total_issues = 0
  /\ start_date = None
  /\ today = None
  /\ yesterday = None
  /\ temp_streak = 0
  /\ temp_streak_start = None
  /\ longest_streak = 0
  /\ longest_streak_start = None
  /\ longest_streak_end = None
  /\ best_day_count = 0
  /\ best_day_date = None
  /\ current_streak = 0
  /\ summary = NoSummary
  /\ run = 1
  /\ first = NoSummary

InitMain ==
  /\ years \in YearOrders
  /\ source \in Sources(Range(years))
  /\ now \in ClockDates
  /\ ticks = 0
  /\ crossed = FALSE
  /\ MainLocals0
  /\ HelpersIdle

\* Line 1065: print(f"Contributing since: {min(years)}").  min of an empty
\* list raises ValueError, which nothing in __main__ catches; otherwise the
\* flow goes on to the call of line 1069.
MainContributingSince ==
  /\ pc = "main"
  /\ IF years = << >>
       THEN /\ error' = "ValueError"
            /\ pc' = "raised"
       ELSE /\ error' = error
            /\ pc' = "start"
  /\ UNCHANGED << inputVars, helperVars, clockVars, runVars, pending, fetched, all_days,
                  totalVars, start_date, today, yesterday, streakVars,
                  current_streak, summary >>

NextMain == MainContributingSince \/ Next

SpecMain == InitMain /\ [][NextMain]_vars

\* ------------------------------------------------------- simple_request
\* The status codes the GraphQL endpoint answers a POST with.
Statuses == {200, 400, 403, 404, 500, 502, 503, 504}
Retryable == {502, 503, 504}

max_retries == 3

aggregatorVars == << years, source, now, ticks, crossed, pc, pending, fetched,
                     error, all_days, totalVars, start_date, today, yesterday,
                     streakVars, current_streak, summary, run, first >>

\* The aggregation not running: simple_request is modelled on its own.
AggregatorIdle ==
  /\ years = << >>
  /\ source = [y \in AllYears |-> EmptyCalendar]
  /\ now = LastDate
  /\ ticks = 0
  /\ crossed = FALSE
  /\ Locals0

\* Lines 48-51: the call, before the first iteration of the loop.
InitRequest ==
  /\ AggregatorIdle
  /\ rq_pc = "loop"
  /\ attempt = 0
  /\ request = None
  /\ posted = << >>
  /\ rq_result = "none"
  /\ LocIdle

\* One iteration with a response that is returned whatever its status once
\* the retries are used up.
PostReturnsLast ==
  /\ rq_pc = "loop"
  /\ attempt < max_retries
  /\ \E code \in Statuses :
       /\ request' = code
       /\ posted' = Append(posted, code)
       /\ IF code = 200 \/ (code \in Retryable /\ attempt >= max_retries - 1)
            THEN /\ rq_pc' = "returned"
                 /\ rq_result' = "response"
                 /\ attempt' = attempt
            ELSE IF code \in Retryable
            THEN /\ rq_pc' = "loop"
                 /\ rq_result' = rq_result
                 /\ attempt' = attempt + 1
            ELSE /\ rq_pc' = "broke"
                 /\ rq_result' = rq_result
                 /\ attempt' = attempt
  /\ UNCHANGED << aggregatorVars, locVars >>

\* One iteration that goes round again after any code other than 200.
PostRetriesAny ==
  /\ rq_pc = "loop"
  /\ attempt < max_retries
  /\ \E code \in Statuses :
       /\ request' = code
       /\ posted' = Append(posted, code)
       /\ IF code = 200
            THEN /\ rq_pc' = "returned"
                 /\ rq_result' = "response"
                 /\ attempt' = attempt
            ELSE IF attempt < max_retries - 1
            THEN /\ rq_pc' = "loop"
                 /\ rq_result' = rq_result
                 /\ attempt' = attempt + 1
            ELSE /\ rq_pc' = "broke"
                 /\ rq_result' = rq_result
                 /\ attempt' = attempt
  /\ UNCHANGED << aggregatorVars, locVars >>

\* Lines 51-67: one iteration of for attempt in range(max_retries): the POST,
\* then return on 200, sleep and continue on 502/503/504 while an attempt is
\* left, break otherwise.
Post ==
  /\ rq_pc = "loop"
  /\ attempt < max_retries
  /\ \E code \in Statuses :
       /\ request' = code
       /\ posted' = Append(posted, code)
       /\ IF code = 200
            THEN /\ rq_pc' = "returned"
                 /\ rq_result' = "response"
                 /\ attempt' = attempt
            ELSE IF code \in Retryable /\ attempt < max_retries - 1
            THEN /\ rq_pc' = "loop"
                 /\ rq_result' = rq_result
                 /\ attempt' = attempt + 1
            ELSE /\ rq_pc' = "broke"
                 /\ rq_result' = rq_result
                 /\ attempt' = attempt
  /\ UNCHANGED << aggregatorVars, locVars >>

\* Lines 69-75: after the loop, the rate-limit exception on 403 and the
\* status exception otherwise.
RaiseAfterLoop ==
  /\ rq_pc = "broke"
  /\ rq_pc' = "raised"
  /\ rq_result' = IF request = 403 THEN "rate limit exception" ELSE "status exception"
  /\ UNCHANGED << aggregatorVars, locVars, attempt, request, posted >>

NextRequest == Post \/ RaiseAfterLoop

SpecRequest == InitRequest /\ [][NextRequest]_vars

\* ----------------------------------------------------- get_lines_of_code
\* The most repositories an account holds.
MaxRepos == 3

\* The answers to the repository list and to a contributor-stats request.
ReposStatuses == {200, 403}
StatsStatuses == {200, 202, 204, 404}

\* A contributor of a stats body: whether its author is USER_NAME, and the
\* lines its weeks add and delete.
Contributors == {[mine |-> m, a |-> 2, d |-> 1] : m \in BOOLEAN}
StatsBodies == {<< >>} \cup {<< c >> : c \in Contributors}
                 \cup {<< c1, c2 >> : c1 \in Contributors, c2 \in Contributors}

RepoLists == UNION {[1..n -> {[fork |-> f] : f \in BOOLEAN}] : n \in 0..MaxRepos}

\* Lines 244-249: the additions and deletions of the weeks of the contributors
\* whose author is USER_NAME.
RECURSIVE MyAdditions(_)
MyAdditions(stats) ==
  IF stats = << >> THEN 0
  ELSE (IF Head(stats).mine THEN Head(stats).a ELSE 0) + MyAdditions(Tail(stats))

RECURSIVE MyDeletions(_)
MyDeletions(stats) ==
  IF stats = << >> THEN 0
  ELSE (IF Head(stats).mine THEN Head(stats).d ELSE 0) + MyDeletions(Tail(stats))

\* Lines 188-206: the call, before the answer to the repository list.
InitLoc ==
  /\ AggregatorIdle
  /\ RequestIdle
  /\ repos \in RepoLists
  /\ loc_pc = "repos"
  /\ LocLocals0

\* Lines 206-220: the repository list; any status but 200 returns zeros.
GetRepos ==
  /\ loc_pc = "repos"
  /\ \E code \in ReposStatuses :
       IF code # 200
       THEN /\ loc_result' = [additions |-> 0, deletions |-> 0]
            /\ loc_pc' = "returned"
            /\ repo_idx' = repo_idx
       ELSE /\ loc_result' = loc_result
            /\ loc_pc' = "loop"
            /\ repo_idx' = 1
  /\ UNCHANGED << aggregatorVars, requestVars, repos, stats_attempt,
                  repo_additions, repo_deletions, status, total_additions,
                  total_deletions, processed, skipped_forks, stats_requests,
                  repo_log >>

\* Lines 222-225: a forked repository is skipped.
SkipFork ==
  /\ loc_pc = "loop"
  /\ repo_idx <= Len(repos)
  /\ repos[repo_idx].fork
  /\ skipped_forks' = skipped_forks + 1
  /\ repo_log' = Append(repo_log, [fork |-> TRUE, requests |-> << >>,
                                    additions |-> 0, deletions |-> 0])
  /\ repo_idx' = repo_idx + 1
  /\ UNCHANGED << aggregatorVars, requestVars, repos, loc_pc, stats_attempt,
                  repo_additions, repo_deletions, status, total_additions,
                  total_deletions, processed, stats_requests, loc_result >>

\* Lines 263-265 and the step of the loop of line 222: the repository's lines
\* go into the totals.
FinishRepo(requests, additions, deletions) ==
  /\ total_additions' = total_additions + additions
  /\ total_deletions' = total_deletions + deletions
  /\ processed' = processed + 1
  /\ repo_log' = Append(repo_log, [fork |-> FALSE, requests |-> requests,
                                    additions |-> additions, deletions |-> deletions])
  /\ repo_idx' = repo_idx + 1
  /\ stats_attempt' = 0
  /\ stats_requests' = << >>

SameRepo(requests) ==
  /\ stats_attempt' = stats_attempt + 1
  /\ stats_requests' = requests
  /\ UNCHANGED << total_additions, total_deletions, processed, repo_log, repo_idx >>

\* One stats request that is repeated after any status but 200 and 204.
StatsRequestRetriesErrors ==
  /\ loc_pc = "loop"
  /\ repo_idx <= Len(repos)
  /\ ~repos[repo_idx].fork
  /\ stats_attempt < 3
  /\ \E code \in StatsStatuses, stats \in StatsBodies :
       LET first_request == stats_attempt = 0
           additions0 == IF first_request THEN 0 ELSE repo_additions
           deletions0 == IF first_request THEN 0 ELSE repo_deletions
           requests == Append(stats_requests, code)
       IN /\ code # 200 => stats = << >>
          /\ IF code = 200
             THEN /\ repo_additions' = additions0 + MyAdditions(stats)
                  /\ repo_deletions' = deletions0 + MyDeletions(stats)
                  /\ status' = "ok"
                  /\ FinishRepo(requests, repo_additions', repo_deletions')
             ELSE IF code = 204
             THEN /\ repo_additions' = additions0
                  /\ repo_deletions' = deletions0
                  /\ status' = "empty"
                  /\ FinishRepo(requests, additions0, deletions0)
             ELSE /\ repo_additions' = additions0
                  /\ repo_deletions' = deletions0
                  /\ status' = "computing..."
                  /\ IF stats_attempt < 2
                     THEN SameRepo(requests)
                     ELSE FinishRepo(requests, additions0, deletions0)
  /\ UNCHANGED << aggregatorVars, requestVars, repos, loc_pc, skipped_forks,
                  loc_result >>

\* Lines 227-265: one iteration of for attempt in range(3) for the repository
\* at repo_idx, the first one after lines 227-236; with the break or the end
\* of the range, lines 263-265.
StatsRequest ==
  /\ loc_pc = "loop"
  /\ repo_idx <= Len(repos)
  /\ ~repos[repo_idx].fork
  /\ stats_attempt < 3
  /\ \E code \in StatsStatuses, stats \in StatsBodies :
       LET first_request == stats_attempt = 0
           additions0 == IF first_request THEN 0 ELSE repo_additions
           deletions0 == IF first_request THEN 0 ELSE repo_deletions
           requests == Append(stats_requests, code)
       IN /\ code # 200 => stats = << >>
          /\ IF code = 200
             THEN /\ repo_additions' = additions0 + MyAdditions(stats)
                  /\ repo_deletions' = deletions0 + MyDeletions(stats)
                  /\ status' = "ok"
                  /\ FinishRepo(requests, repo_additions', repo_deletions')
             ELSE IF code = 202
             THEN /\ repo_additions' = additions0
                  /\ repo_deletions' = deletions0
                  /\ status' = "computing..."
                  /\ IF stats_attempt < 2
                     THEN SameRepo(requests)
                     ELSE FinishRepo(requests, additions0, deletions0)
             ELSE /\ repo_additions' = additions0
                  /\ repo_deletions' = deletions0
                  /\ status' = IF code = 204 THEN "empty" ELSE "error"
                  /\ FinishRepo(requests, additions0, deletions0)
  /\ UNCHANGED << aggregatorVars, requestVars, repos, loc_pc, skipped_forks,
                  loc_result >>

\* Lines 270-271: the totals are returned.
ReturnTotals ==
  /\ loc_pc = "loop"
  /\ repo_idx > Len(repos)
  /\ loc_result' = [additions |-> total_additions, deletions |-> total_deletions]
  /\ loc_pc' = "returned"
  /\ UNCHANGED << aggregatorVars, requestVars, repos, repo_idx, stats_attempt,
                  repo_additions, repo_deletions, status, total_additions,
                  total_deletions, processed, skipped_forks, stats_requests,
                  repo_log >>

NextLoc == GetRepos \/ SkipFork \/ StatsRequest \/ ReturnTotals

SpecLoc == InitLoc /\ [][NextLoc]_vars

\* ================================================================= claims
Done == pc = "done"
N == Len(all_days)
LastDayRec == all_days[N]
PositiveAt(days, i) == days[i].count > 0

\* The lengths of the runs of adjacent positive days of a sequence.
RunLengths(days) ==
  {r[2] - r[1] + 1 :
     r \in {q \in (1..Len(days)) \X (1..Len(days)) :
              q[1] <= q[2] /\ \A k \in q[1]..q[2] : PositiveAt(days, k)}}

MaxOf(S) == IF S = {} THEN 0 ELSE CHOOSE m \in S : \A x \in S : x <= m
MinOf(S) == CHOOSE m \in S : \A x \in S : m <= x

LongestRun(days) == MaxOf(RunLengths(days))

\* C1: the returned longest_streak is the length of the longest run of
\* adjacent days with count > 0 of the sorted sequence, a run that reaches
\* the last day included.
C1_LongestStreakIsLongestRun ==
  Done => summary.longest_streak = LongestRun(all_days)

\* C1 witness: the longest run is the one still open at the last day, after
\* a day with count 0 that closed a shorter one.
C1_Witness ==
  /\ Done
  /\ N >= 3
  /\ PositiveAt(all_days, N)
  /\ \E z \in 1..N : ~PositiveAt(all_days, z)
  /\ summary.longest_streak >= 2
  /\ summary.longest_streak_end = LastDayRec.date
  /\ LongestRun(SubSeq(all_days, 1, N - 1)) < summary.longest_streak

\* The positions of the recent days (dated today or yesterday) with count > 0.
RecentPositive == {i \in 1..N : IsRecent(all_days[i], today, yesterday) /\ PositiveAt(all_days, i)}

\* Counting back from position idx while the day has count > 0 and is dated
\* exactly one day before the day counted last.
RECURSIVE ContiguousBack(_, _, _, _)
ContiguousBack(days, idx, prev, cs) ==
  IF idx >= 1 /\ days[idx].count > 0 /\ days[idx].date = prev - 1
  THEN ContiguousBack(days, idx - 1, days[idx].date, cs + 1)
  ELSE cs

GapAwareStreak ==
  IF RecentPositive = {} THEN 0
  ELSE LET a == MaxOf(RecentPositive)
       IN ContiguousBack(all_days, a - 1, all_days[a].date, 1)

\* C2: the backward count of the current streak stops at the first day with
\* count 0 or at the first date gap: a day is counted only if it is dated one
\* calendar day before the day counted last.
C2_StopsAtDateGap ==
  Done => summary.current_streak = GapAwareStreak

\* C3 as stated: a most recent day dated today with count 0 gives
\* current_streak = 0 whatever the days before it hold.
C3_ZeroTodayBreaksStreak ==
  (Done /\ N > 0 /\ LastDayRec.date = today /\ LastDayRec.count = 0)
     => summary.current_streak = 0

\* C3 amended: with a most recent day dated today and count 0, current_streak
\* is 0 exactly when no day dated today or yesterday has count > 0; today's
\* empty day alone does not break the streak that ends yesterday.
C3_ZeroTodayDefersToYesterday ==
  (Done /\ N > 0 /\ LastDayRec.date = today /\ LastDayRec.count = 0)
     => (summary.current_streak = 0 <=> RecentPositive = {})

\* C3 witness: today is empty, yesterday is not, and the streak is counted
\* from yesterday.
C3_Witness ==
  /\ Done
  /\ N >= 2
  /\ LastDayRec.date = today
  /\ LastDayRec.count = 0
  /\ all_days[N - 1].date = yesterday
  /\ all_days[N - 1].count > 0
  /\ summary.current_streak >= 1

\* C4: a most recent day dated before yesterday gives current_streak = 0.
C4_StaleDataNoCurrentStreak ==
  (Done /\ N > 0 /\ LastDayRec.date < yesterday) => summary.current_streak = 0

\* C4 witness: the most recent day is older than yesterday and ends a run of
\* two days with count > 0.
C4_Witness ==
  /\ Done
  /\ N >= 2
  /\ LastDayRec.date < yesterday
  /\ PositiveAt(all_days, N)
  /\ PositiveAt(all_days, N - 1)
  /\ summary.current_streak = 0

\* The counts recorded for a calendar date.
CountsOn(d) == {all_days[i].count : i \in {j \in 1..N : all_days[j].date = d}}

\* C5: when longest_streak > 0 the returned window is a run of consecutive
\* calendar days: every date from longest_streak_start to longest_streak_end
\* has a day with count > 0, and the window spans longest_streak dates.
C5_LongestWindowIsCalendarRun ==
  (Done /\ summary.longest_streak > 0)
     => /\ summary.longest_streak_end - summary.longest_streak_start + 1
             = summary.longest_streak
        /\ \A d \in summary.longest_streak_start..summary.longest_streak_end :
             \E c \in CountsOn(d) : c > 0

AllCounts == {all_days[i].count : i \in 1..N}
DatesWithCount(c) == {all_days[i].date : i \in {j \in 1..N : all_days[j].count = c}}

\* C6: best_day_count is the largest count of the merged days (0 when no day
\* has count > 0) and, when it is positive, best_day_date is the earliest date
\* that has it.
C6_BestDayIsEarliestMaximum ==
  Done => /\ summary.best_day_count = MaxOf(AllCounts)
          /\ summary.best_day_count > 0
               => summary.best_day_date = MinOf(DatesWithCount(summary.best_day_count))

\* C6 witness: two days share the largest count.
C6_Witness ==
  /\ Done
  /\ summary.best_day_count > 0
  /\ Cardinality(DatesWithCount(summary.best_day_count)) >= 2

DaysUpToToday == {i \in 1..N : all_days[i].date <= today}

\* C7: avg_per_day is total_contributions over the number of merged days
\* dated today or earlier, and 0 when there is no such day (the divisor is
\* never 0).
C7_AverageOverDaysUpToToday ==
  Done => /\ summary.avg_per_day.den # 0
          /\ IF Cardinality(DaysUpToToday) > 0
             THEN summary.avg_per_day.num * Cardinality(DaysUpToToday)
                    = summary.total_contributions * summary.avg_per_day.den
             ELSE summary.avg_per_day.num = 0

\* C7 witness: some merged days are dated after today, some are not, and
\* there are contributions to average.
C7_Witness ==
  /\ Done
  /\ Cardinality(DaysUpToToday) > 0
  /\ Cardinality(DaysUpToToday) < N
  /\ summary.total_contributions > 0

\* The merged days with, of the records of one date, only the last.
RECURSIVE Dedup(_)
Dedup(days) ==
  IF days = << >> THEN << >>
  ELSE IF \E j \in 2..Len(days) : days[j].date = Head(days).date
       THEN Dedup(Tail(days))
       ELSE << Head(days) >> \o Dedup(Tail(days))

LongestStreakOf(days) == FinalCheck(days, StreakLoop(days, 1, StreakInit)).longest_streak

\* C8: a date fetched twice does not corrupt the results: the longest streak,
\* the current streak and the day count of the average are those of the
\* sequence holding only the later record of the date.
C8_DuplicateDateCountedOnce ==
  Done => /\ summary.longest_streak = LongestStreakOf(Dedup(all_days))
          /\ summary.current_streak = CurrentStreakOf(Dedup(all_days), today, yesterday)
          /\ summary.avg_per_day =
               AvgPerDay(summary.total_contributions, TotalDays(Dedup(all_days), today))

\* C9: two invocations with the same years and the same fetch results return
\* the same summary.
C9_SameInputsSameSummary ==
  (Done /\ run = 2 /\ FetchedData(fetched) = first.fetched)
     => summary = first.summary

\* C10: once a fetch has failed the routine is left by the exception: it
\* takes no further step and returns no summary.
C10_FetchFailurePropagates ==
  error # "none" => (pc = "raised" /\ summary = NoSummary)

\* C10 witness: the fetch of a later year fails after an earlier year was
\* fetched.
C10_Witness ==
  /\ pc = "raised"
  /\ error = "Exception"
  /\ Len(fetched) >= 1
  /\ Len(fetched) < Len(years)

\* ---------------------------------------------------------------------------
\* The fetch loop, lines 325-351.

PostFetch == {"today", "yesterday", "pass", "final", "current", "average", "done"}
FetchedYears == [i \in 1..Len(fetched) |-> fetched[i].year]

\* C11: whatever the order of the requested years, the routine issues exactly
\* one calendar fetch per requested year, in ascending order of year, and every
\* fetch has completed before the merged days are sorted and the streak pass
\* begins: the fetch log is always a prefix of the ascending sequence of the
\* requested years, and is the whole of it from the sort on.
C11_OneFetchPerYearAscending ==
  LET asc == AscSeq(Range(years))
  IN /\ Len(fetched) <= Len(asc)
     /\ FetchedYears = SubSeq(asc, 1, Len(fetched))
     /\ pc \in PostFetch => FetchedYears = asc

C11_Witness ==
  /\ pc = "pass"
  /\ Len(years) >= 3
  /\ years[1] > years[2]
  /\ FetchedYears = AscSeq(Range(years))

\* C12: the date range requested for a year starts at January 1 of the year,
\* and ends at the current date when the year is the current year and at
\* December 31 of the year for every other requested year. Stated of the step
\* that issues the fetch, with the clock as it stands at that step.
C12_RangeClampedToCurrentDate ==
  [][(Len(fetched') = Len(fetched) + 1) =>
       LET f == fetched'[Len(fetched')]
       IN /\ f.year = Head(pending)
          /\ f.start = FirstDay(f.year)
          /\ f.end = IF YearOf(now) = f.year THEN now ELSE LastDay(f.year)]_vars

C12_Witness ==
  /\ pc = "pass"
  /\ \E i, j \in 1..Len(fetched) :
        /\ fetched[i].end = LastDay(fetched[i].year)
        /\ fetched[i].year < YearOf(today)
        /\ fetched[j].year = YearOf(today)
        /\ fetched[j].end = today
        /\ fetched[j].end < LastDay(fetched[j].year)
        /\ fetched[j].start = FirstDay(fetched[j].year)

\* The rollup fetched for year y, and the sum of one of its fields over a set
\* of years.
Rollup(y) == fetched[CHOOSE i \in 1..Len(fetched) : fetched[i].year = y].data

RECURSIVE SumRollup(_, _)
SumRollup(S, field) ==
  IF S = {} THEN 0
  ELSE LET y == CHOOSE y \in S : TRUE
       IN Rollup(y)[field] + SumRollup(S \ {y}, field)

\* C13: each returned total (total_contributions, total_commits, total_prs,
\* total_pr_reviews, total_issues) equals the sum over the set of the requested
\* years of the corresponding field of that year's rollup, whatever the order
\* in which the years were given.
C13_TotalsAreSumsOverYears ==
  Done =>
    LET S == Range(years)
    IN /\ summary.total_contributions = SumRollup(S, "totalContributions")
       /\ summary.total_commits = SumRollup(S, "totalCommitContributions")
       /\ summary.total_prs = SumRollup(S, "totalPullRequestContributions")
       /\ summary.total_pr_reviews = SumRollup(S, "totalPullRequestReviewContributions")
       /\ summary.total_issues = SumRollup(S, "totalIssueContributions")

C13_Witness ==
  /\ Done
  /\ Len(years) >= 2
  /\ years[1] > years[2]
  /\ \A y \in Range(years) :
        /\ Rollup(y).totalContributions > 0
        /\ Rollup(y).totalPullRequestContributions > 0
  /\ summary.total_pr_reviews > 0
  /\ summary.total_contributions > Rollup(years[1]).totalContributions

\* The day records of the responses, in the order in which they were fetched.
RECURSIVE FetchedDays(_)
FetchedDays(k) ==
  IF k = 0 THEN << >> ELSE FetchedDays(k - 1) \o fetched[k].data.days

OnDate(s, d) == LET Dated(r) == r.date = d IN SelectSeq(s, Dated)

\* C14: when the streak pass begins, the merged day sequence contains every
\* fetched day record and is sorted by date in non-decreasing order, and the
\* records of one date keep the order in which they were fetched.
C14_MergedDaysStableSorted ==
  pc \in PostFetch =>
    LET F == FetchedDays(Len(fetched))
    IN /\ Len(all_days) = Len(F)
       /\ \A i \in 1..(Len(all_days) - 1) : all_days[i].date <= all_days[i + 1].date
       /\ \A d \in 1..LastDate : OnDate(all_days, d) = OnDate(F, d)

C14_Witness ==
  /\ pc = "pass"
  /\ all_days # FetchedDays(Len(fetched))
  /\ Len(fetched) = 2
  /\ \E i \in 1..(Len(all_days) - 1) :
        /\ all_days[i].date = all_days[i + 1].date
        /\ all_days[i].count # all_days[i + 1].count

\* ---------------------------------------------------------------------------
\* Degenerate inputs, lines 353-407.

\* C15: if the merged day sequence is empty, the routine returns without
\* error, with current_streak = 0, longest_streak = 0, no longest-streak start
\* or end date, best_day_count = 0, no best-day date, and avg_per_day = 0.
C15_EmptyDaysZeroSummary ==
  /\ (all_days = << >> /\ pc \in PostFetch) => error = "none"
  /\ (Done /\ all_days = << >>) =>
       /\ summary.returned
       /\ summary.current_streak = 0
       /\ summary.longest_streak = 0
       /\ summary.longest_streak_start = None
       /\ summary.longest_streak_end = None
       /\ summary.best_day_count = 0
       /\ summary.best_day_date = None
       /\ summary.avg_per_day = [num |-> 0, den |-> 1]

C15_Witness ==
  /\ Done
  /\ all_days = << >>
  /\ fetched = << >>
  /\ summary.returned
  /\ today # None

\* C16: when no years are requested (the contribution-years query returns an
\* empty list), the run is not an error: the main flow raises nothing, and the
\* summary it obtains from the aggregation is zero-valued.
C16_NoYearsIsNotAnError ==
  years = << >> =>
    /\ error = "none"
    /\ pc # "raised"
    /\ Done =>
         /\ summary.total_contributions = 0
         /\ summary.current_streak = 0
         /\ summary.longest_streak = 0
         /\ summary.best_day_count = 0

\* C17: for every day sequence in which all counts are 0, the routine returns
\* current_streak = 0, longest_streak = 0, best_day_count = 0 and
\* avg_per_day = 0.
C17_AllZeroDaysZeroSummary ==
  (Done /\ \A i \in 1..N : all_days[i].count = 0) =>
    /\ summary.current_streak = 0
    /\ summary.longest_streak = 0
    /\ summary.best_day_count = 0
    /\ summary.avg_per_day = [num |-> 0, den |-> 1]

C17_Witness ==
  /\ Done
  /\ N >= 4
  /\ \A i \in 1..N : all_days[i].count = 0
  /\ all_days[N].date = today
  /\ TotalDays(all_days, today) = N
  /\ summary.longest_streak = 0

\* ---------------------------------------------------------------------------
\* Streaks that end today, lines 368-403.

\* C18: for a sequence of n >= 1 calendar-consecutive days that all have
\* count > 0 and whose last day is today, the routine returns
\* current_streak = n and longest_streak = n, with longest_streak_start the
\* first day and longest_streak_end today.
C18_UnbrokenRunEndingToday ==
  (/\ Done
   /\ N >= 1
   /\ \A i \in 1..N : all_days[i].count > 0
   /\ \A i \in 1..(N - 1) : all_days[i + 1].date = all_days[i].date + 1
   /\ all_days[N].date = today) =>
    /\ summary.current_streak = N
    /\ summary.longest_streak = N
    /\ summary.longest_streak_start = all_days[1].date
    /\ summary.longest_streak_end = today

C18_Witness ==
  /\ Done
  /\ N >= 4
  /\ \A i \in 1..N : all_days[i].count > 0
  /\ \A i \in 1..(N - 1) : all_days[i + 1].date = all_days[i].date + 1
  /\ all_days[N].date = today
  /\ summary.current_streak = N
  /\ summary.longest_streak_end = today

\* C19: for every day sequence whose last entry is dated today, the returned
\* longest_streak is at least the returned current_streak.
C19_LongestAtLeastCurrent ==
  (Done /\ N >= 1 /\ all_days[N].date = today) =>
    summary.longest_streak >= summary.current_streak

C19_Witness ==
  /\ Done
  /\ N >= 4
  /\ all_days[N].date = today
  /\ \E i \in 1..N : all_days[i].count = 0
  /\ summary.current_streak >= 2
  /\ summary.longest_streak = summary.current_streak
  /\ summary.longest_streak_end = today

\* C20: the returned start_date is January 1 of the smallest requested year,
\* whatever the order in which the years were given.
C20_StartDateIsFirstDayOfSmallestYear ==
  (Done /\ years # << >>) =>
    \E y \in Range(years) :
      /\ \A z \in Range(years) : y <= z
      /\ summary.start_date = FirstDay(y)

C20_Witness ==
  /\ Done
  /\ Len(years) >= 2
  /\ years[1] > years[Len(years)]
  /\ summary.start_date = FirstDay(years[Len(years)])
  /\ summary.start_date # FirstDay(years[1])

\* ---------------------------------------------------------------------------
\* simple_request, lines 48-75.

LastPosted == posted[Len(posted)]

\* C21: simple_request returns a response only if that response has status
\* 200; with any other final status (400, 403, and 502/503/504 once the
\* retries are used up) it raises an exception and never hands a non-200
\* response to the caller.
C21_ReturnsOnlyStatus200 ==
  /\ rq_result = "response" <=> rq_pc = "returned"
  /\ rq_pc = "returned" => (request = 200 /\ LastPosted = 200)
  /\ rq_pc = "broke" => (request # 200 /\ rq_result = "none")
  /\ rq_pc = "raised" =>
       /\ request # 200
       /\ rq_result = IF request = 403 THEN "rate limit exception" ELSE "status exception"
  /\ rq_pc = "loop" => (rq_result = "none" /\ attempt < max_retries)

C21_Witness ==
  /\ rq_pc = "raised"
  /\ posted = << 502, 503, 504 >>
  /\ rq_result = "status exception"

\* C22: simple_request ends after at most 3 POST attempts: a further attempt
\* is made only when the previous response status was 502, 503 or 504 and
\* fewer than 3 attempts have been made; any other status other than 200 ends
\* the call after that single attempt.
C22_AtMostThreeAttempts ==
  /\ Len(posted) <= 3
  /\ \A i \in 1..(Len(posted) - 1) : posted[i] \in Retryable
  /\ rq_pc = "loop" => (Len(posted) < 3 /\ \A i \in 1..Len(posted) : posted[i] \in Retryable)

C22_Witness ==
  /\ rq_pc = "raised"
  /\ Len(posted) = 2
  /\ posted[1] = 503
  /\ posted[2] = 500

\* ---------------------------------------------------------------------------
\* get_lines_of_code, lines 222-271.

RECURSIVE LoggedAdditions(_)
LoggedAdditions(log) ==
  IF log = << >> THEN 0 ELSE Head(log).additions + LoggedAdditions(Tail(log))

RECURSIVE LoggedDeletions(_)
LoggedDeletions(log) ==
  IF log = << >> THEN 0 ELSE Head(log).deletions + LoggedDeletions(Tail(log))

RepeatedOnlyAfter202(requests) ==
  /\ Len(requests) <= 3
  /\ \A i \in 1..(Len(requests) - 1) : requests[i] = 202

\* C23: in get_lines_of_code each repository that is not a fork receives at
\* most 3 contributor-stats requests, a request being repeated only after a
\* 202 response; forks receive none; a repository whose three responses are
\* all 202, or whose response is 204 or an error status, adds 0 additions and
\* 0 deletions; and the function returns the totals of what the repositories
\* added.
C23_StatsRequestsBounded ==
  /\ Len(repo_log) <= Len(repos)
  /\ RepeatedOnlyAfter202(stats_requests)
  /\ \A i \in 1..Len(stats_requests) : stats_requests[i] = 202
  /\ \A i \in 1..Len(repo_log) :
       LET e == repo_log[i]
       IN /\ e.fork = repos[i].fork
          /\ e.fork => e.requests = << >>
          /\ ~e.fork =>
               /\ Len(e.requests) >= 1
               /\ RepeatedOnlyAfter202(e.requests)
               /\ e.requests[Len(e.requests)] # 200 =>
                    (e.additions = 0 /\ e.deletions = 0)
  /\ (loc_pc = "returned" /\ repo_idx >= 1) =>
       /\ Len(repo_log) = Len(repos)
       /\ loc_result = [additions |-> LoggedAdditions(repo_log),
                        deletions |-> LoggedDeletions(repo_log)]

C23_Witness ==
  /\ loc_pc = "returned"
  /\ Len(repo_log) = 3
  /\ \E i, j, k \in 1..3 :
       /\ repo_log[i].fork
       /\ repo_log[j].requests = << 202, 202, 202 >>
       /\ repo_log[k].requests = << 202, 200 >>
       /\ repo_log[k].additions > 0
       /\ loc_result.additions = repo_log[k].additions

\* ---------------------------------------------------------------------------
\* The clock reads of one invocation, lines 329, 363 and 364.

\* C24: within one invocation the "yesterday" used by the current-streak scan
\* is exactly one calendar day before "today", and the date that clamps the
\* range of the current year equals that same "today", although the clock is
\* read separately at each of these points and may advance between the reads.
C24_OneTodayPerInvocation ==
  Done =>
    /\ yesterday = today - 1
    /\ \A i \in 1..Len(fetched) :
         (fetched[i].year = YearOf(today) \/ fetched[i].end < LastDay(fetched[i].year))
           => fetched[i].end = today

\* ---------------------------------------------------------------------------
\* Invariants of the returned summary, lines 353-403.

\* C25: for every input (any day sequence, any current date, with or without
\* duplicate or future-dated records) the returned summary satisfies
\* longest_streak >= current_streak >= 0.
C25_LongestBoundsCurrent ==
  Done =>
    /\ summary.longest_streak >= summary.current_streak
    /\ summary.current_streak >= 0

C25_Witness ==
  /\ Done
  /\ \E i \in 1..(N - 1) : all_days[i].date = all_days[i + 1].date
  /\ \E j \in 1..N : all_days[j].date > today
  /\ \E k \in 1..N : all_days[k].count = 0
  /\ summary.current_streak >= 2
  /\ summary.longest_streak > summary.current_streak

PositiveOn(d) == \E i \in 1..N : all_days[i].date = d /\ all_days[i].count > 0

\* C26: in every returned summary longest_streak_start and longest_streak_end
\* are both None exactly when longest_streak = 0, and otherwise both are dates
\* of days with count > 0 with longest_streak_start <= longest_streak_end;
\* best_day_date is None exactly when best_day_count = 0.
C26_DatesPresentWithStreak ==
  Done =>
    /\ summary.longest_streak >= 0
    /\ summary.longest_streak = 0 <=> summary.longest_streak_start = None
    /\ summary.longest_streak = 0 <=> summary.longest_streak_end = None
    /\ summary.longest_streak > 0 =>
         /\ PositiveOn(summary.longest_streak_start)
         /\ PositiveOn(summary.longest_streak_end)
         /\ summary.longest_streak_start <= summary.longest_streak_end
    /\ summary.best_day_count >= 0
    /\ summary.best_day_count = 0 <=> summary.best_day_date = None
    /\ summary.best_day_count > 0 =>
         \E i \in 1..N : /\ all_days[i].date = summary.best_day_date
                         /\ all_days[i].count = summary.best_day_count

C26_Witness ==
  /\ Done
  /\ summary.longest_streak >= 2
  /\ summary.longest_streak_start < summary.longest_streak_end
  /\ summary.longest_streak_end < all_days[N].date
  /\ all_days[1].count = 0
  /\ summary.best_day_count = 2
  /\ summary.best_day_date = summary.longest_streak_end

====
